---- MODULE Spec2Model ----
(***************************************************************************)
(* Model of the continuous speech-utterance segmentation engine of         *)
(* python_frontend/ai_inter.py: SpeechRecognitionThread (run,              *)
(* _maybe_finalize, _merge_transcript, stop) and the part of               *)
(* MainView._toggle_listening that starts and stops it.                    *)
(*                                                                         *)
(* Text is a sequence of one-character strings.  Time is counted in        *)
(* hundredths of a second.                                                 *)
(***************************************************************************)
EXTENDS Integers, Sequences, FiniteSets, TLC

\* ------------------------------------------------------------------------
\* Bounds of the model
\* ------------------------------------------------------------------------
\* longest exhaustively enumerated merge input
MaxLen == 4
\* segments accepted in one listening session
MaxAccepts == 2
\* audio devices on the machine
MaxDevices == 3
\* SpeechRecognitionThread objects created by the Start button
MaxThreads == 3
\* questions asked of the language model
MaxQuestions == 3

\* ------------------------------------------------------------------------
\* Program constants (hundredths of a second, characters, words)
\* ------------------------------------------------------------------------
ShortSilence == 150
FinalSilence == 330
ConfirmPause == 70
MaxUtterance == 7500
SentenceSilence == 75
ShortQuestionSilence == 55
ShortQuestionHold == 22
ListenTimeout == 90
MaxOverlap == 20
LongWords == 10
ShortWords == 8
RecalibrateEvery == 6000
RecalibrateDuration == 40
\* ai_desktop.py: the floor of the sensitivity nudge and its step
NudgeFloor == 50
NudgeStep == 50

\* ------------------------------------------------------------------------
\* Text helpers: str.strip, str.lower, `in`, startswith, endswith, split
\* ------------------------------------------------------------------------
Min(a, b) == IF a <= b THEN a ELSE b

IsSpace(c) == c = " "

\* s[lo..hi], empty when hi < lo (Python slice s[lo-1:hi])
Slice(s, lo, hi) == IF hi < lo THEN << >> ELSE SubSeq(s, lo, hi)

\* str.strip(): drop leading and trailing whitespace
Strip(s) ==
    LET keep == {i \in 1..Len(s) : ~IsSpace(s[i])}
    IN  IF keep = {} THEN << >>
        ELSE Slice(s, CHOOSE i \in keep : \A j \in keep : i <= j,
                      CHOOSE i \in keep : \A j \in keep : i >= j)

LowerChar(c) ==
    CASE c = "W" -> "w"
      [] c = "T" -> "t"
      [] c = "I" -> "i"
      [] OTHER   -> c

\* str.lower()
Lower(s) == [i \in 1..Len(s) |-> LowerChar(s[i])]

\* s.startswith(p)
StartsWith(s, p) == Len(p) <= Len(s) /\ Slice(s, 1, Len(p)) = p

\* s.endswith(p)
EndsWith(s, p) == Len(p) <= Len(s) /\ Slice(s, Len(s) - Len(p) + 1, Len(s)) = p

\* needle in hay
Contains(hay, needle) ==
    \E i \in 0..(Len(hay) - Len(needle)) : Slice(hay, i + 1, i + Len(needle)) = needle

\* len(s.split()): the number of maximal runs of non-space characters
WordCount(s) ==
    Cardinality({i \in 1..Len(s) : ~IsSpace(s[i]) /\ (i = 1 \/ IsSpace(s[i - 1]))})

\* ------------------------------------------------------------------------
\* SpeechRecognitionThread._merge_transcript
\* ------------------------------------------------------------------------
\* for k in range(max_overlap, 0, -1): if existing.endswith(new_part[:k]): return ...
RECURSIVE OverlapScan(_, _, _)
OverlapScan(existing, new_part, k) ==
    IF k <= 0 THEN Strip(existing \o <<" ">> \o new_part)
    ELSE IF EndsWith(existing, Slice(new_part, 1, k))
         THEN Strip(existing \o Slice(new_part, k + 1, Len(new_part)))
         ELSE OverlapScan(existing, new_part, k - 1)

\* a scan that tries the shortest overlap first
RECURSIVE OverlapScanUp(_, _, _, _)
OverlapScanUp(existing, new_part, k, top) ==
    IF k > top THEN Strip(existing \o <<" ">> \o new_part)
    ELSE IF EndsWith(existing, Slice(new_part, 1, k))
         THEN Strip(existing \o Slice(new_part, k + 1, Len(new_part)))
         ELSE OverlapScanUp(existing, new_part, k + 1, top)

MergeTranscriptShortestOverlap(existing0, new_part0) ==
    LET existing == Strip(existing0)
        new_part == Strip(new_part0)
    IN  IF existing = << >> THEN new_part
        ELSE IF new_part = << >> THEN existing
        ELSE IF Contains(existing, new_part) THEN existing
        ELSE IF Contains(new_part, existing) THEN new_part
        ELSE OverlapScanUp(existing, new_part, 1,
                           Min(MaxOverlap, Min(Len(existing), Len(new_part))))

\* a merge without the contained-segment shortcut
MergeTranscriptNoRepeatCheck(existing0, new_part0) ==
    LET existing == Strip(existing0)
        new_part == Strip(new_part0)
    IN  IF existing = << >> THEN new_part
        ELSE IF new_part = << >> THEN existing
        ELSE IF Contains(new_part, existing) THEN new_part
        ELSE OverlapScan(existing, new_part,
                         Min(MaxOverlap, Min(Len(existing), Len(new_part))))

\* a merge whose overlap scan is not capped at 20 characters
MergeTranscriptUncapped(existing0, new_part0) ==
    LET existing == Strip(existing0)
        new_part == Strip(new_part0)
    IN  IF existing = << >> THEN new_part
        ELSE IF new_part = << >> THEN existing
        ELSE IF Contains(existing, new_part) THEN existing
        ELSE IF Contains(new_part, existing) THEN new_part
        ELSE OverlapScan(existing, new_part, Min(Len(existing), Len(new_part)))

\* a merge that keeps only the latest segment
MergeTranscriptKeepLatest(existing0, new_part0) ==
    IF Strip(new_part0) = << >> THEN Strip(existing0) ELSE Strip(new_part0)

MergeTranscript(existing0, new_part0) ==
    LET existing == Strip(existing0)
        new_part == Strip(new_part0)
    IN  IF existing = << >> THEN new_part
        ELSE IF new_part = << >> THEN existing
        ELSE IF Contains(existing, new_part) THEN existing
        ELSE IF Contains(new_part, existing) THEN new_part
        ELSE OverlapScan(existing, new_part,
                         Min(MaxOverlap, Min(Len(existing), Len(new_part))))

\* ------------------------------------------------------------------------
\* Texts used by the finalize policy and by the checks
\* ------------------------------------------------------------------------
QuestionStarters ==
    {<<"w", "h", "a", "t", " ">>,
     <<"w", "h", "y", " ">>,
     <<"h", "o", "w", " ">>,
     <<"i", "s", " ">>,
     <<"a", "r", "e", " ">>,
     <<"c", "a", "n", " ">>,
     <<"d", "o", "e", "s", " ">>,
     <<"d", "o", " ">>,
     <<"d", "i", "d", " ">>,
     <<"w", "i", "l", "l", " ">>,
     <<"w", "o", "u", "l", "d", " ">>,
     <<"s", "h", "o", "u", "l", "d", " ">>,
     <<"c", "o", "u", "l", "d", " ">>,
     <<"t", "e", "l", "l", " ", "m", "e", " ">>,
     <<"e", "x", "p", "l", "a", "i", "n", " ">>,
     <<"w", "h", "e", "n", " ">>,
     <<"w", "h", "e", "r", "e", " ">>,
     <<"w", "h", "i", "c", "h", " ">>}

ClosingPhrases ==
    {<<"t", "h", "a", "n", "k", " ", "y", "o", "u">>,
     <<"t", "h", "a", "t", "'", "s", " ", "i", "t">>,
     <<"t", "h", "a", "t", "'", "s", " ", "a", "l", "l">>}

SentenceEnds == {<<"?">>, <<".">>, <<"!">>, <<":">>}

TellMeAbout == <<"t", "e", "l", "l", " ", "m", "e", " ", "a", "b", "o", "u", "t">>

TheWeather == <<"t", "h", "e", " ", "w", "e", "a", "t", "h", "e", "r">>

TellMeAboutYour == TellMeAbout \o <<" ", "y", "o", "u", "r">>

YourLastProject == <<"y", "o", "u", "r", " ", "l", "a", "s", "t", " ", "p", "r", "o", "j", "e", "c", "t">>

WhatIs == <<"w", "h", "a", "t", " ", "i", "s">>

IsYour == <<"i", "s", " ", "y", "o", "u", "r">>

WhatIsYour == WhatIs \o <<" ", "y", "o", "u", "r">>

WhatIsYourGreatestWeakness ==
    WhatIsYour \o <<" ", "g", "r", "e", "a", "t", "e", "s", "t", " ", "w", "e", "a", "k", "n", "e", "s", "s">>

WhatIsYourName == WhatIsYour \o <<" ", "n", "a", "m", "e", "?">>

ThankYou == <<"t", "h", "a", "n", "k", " ", "y", "o", "u">>

\* ------------------------------------------------------------------------
\* The pure part of SpeechRecognitionThread._maybe_finalize
\* ------------------------------------------------------------------------
\* ends_sentence (lines 346-347)
EndsSentence(buf) ==
    \/ \E p \in SentenceEnds : EndsWith(Strip(buf), p)
    \/ \E k \in ClosingPhrases : Contains(Lower(buf), k)

\* starts_like_question or ends_qmark, from txt_lower (lines 349-355)
LooksLikeQuestion(buf) ==
    LET txt_lower == Lower(Strip(buf))
    IN  \/ \E qw \in QuestionStarters : StartsWith(txt_lower, qw)
        \/ EndsWith(txt_lower, <<"?">>)

\* is_short_question (line 356)
IsShortQuestion(words, buf) == words <= ShortWords \/ LooksLikeQuestion(buf)

\* a policy without the hard-silence rule
CandidateNoHardSilence(words, ends_sentence, is_short_question, silence, utterance_duration) ==
    \/ words >= LongWords /\ silence >= ShortSilence
    \/ ends_sentence /\ silence >= SentenceSilence
    \/ utterance_duration >= MaxUtterance
    \/ is_short_question /\ silence >= ShortQuestionSilence

\* candidate (lines 363-371)
Candidate(words, ends_sentence, is_short_question, silence, utterance_duration) ==
    \/ words >= LongWords /\ silence >= ShortSilence
    \/ ends_sentence /\ silence >= SentenceSilence
    \/ silence >= FinalSilence
    \/ utterance_duration >= MaxUtterance
    \/ is_short_question /\ silence >= ShortQuestionSilence

\* a hold that is the default pause for every utterance
ConfirmHoldAlwaysLong(is_short_question) == ConfirmPause

\* confirm_hold (line 381)
ConfirmHold(is_short_question) ==
    IF is_short_question THEN ShortQuestionHold ELSE ConfirmPause

\* ------------------------------------------------------------------------
\* Recognizer outputs and delays offered by the environment
\* ------------------------------------------------------------------------
\* nine words, no question word, no punctuation
NineWords == <<"a", " ", "b", " ", "c", " ", "d", " ", "e", " ", "f", " ", "g", " ", "h", " ", "j">>

Segments == {WhatIsYourName, NineWords}

\* what recognize_google / recognize_sphinx hand back before .strip()
RawTexts == Segments \cup {<< >>, <<" ">>}

\* how long recognizer.listen and the transcription of its clip take together:
\* a clip shorter than either confirmation hold's complement, and one that
\* outlasts the longest utterance
AudioDelays == {60, MaxUtterance}

\* the delays offered while the UI thread may stop the listener at any step
LongDelays == {MaxUtterance}

\* what the audio input device does: "ok" opens; "absent" makes sr.Microphone()
\* raise; "busy" lets sr.Microphone() be built and makes opening the source raise
Devices == {"ok", "absent", "busy"}

\* the energy threshold of a new Recognizer, before any calibration
DefaultThreshold == 0

\* the ambient levels adjust_for_ambient_noise may measure
AmbientLevels == {1, 2}

\* ------------------------------------------------------------------------
\* State
\* ------------------------------------------------------------------------
\* A timestamp field t is kept as its age now - t, saturated; Unset is the
\* field's initial value 0.0.
Unset == -1

\* self.microphone = None (line 143)
NoMicrophone == -1

\* sr.Microphone() with no device_index: the system default device
DefaultMicrophone == 0

NoNote == [set |-> FALSE]

\* the worker has run since stop() was entered
Disturbed == [set |-> TRUE, calm |-> FALSE]

NoLocals == [words |-> 0, ends |-> FALSE, dur |-> 0]

VARIABLES
    running,                \* self.running
    listening,              \* MainView.listening
    buffer_text,            \* self._buffer_text
    last_speech_ago,        \* now - self._last_speech_ts
    utterance_start_ago,    \* now - self._utterance_start_ts
    pending_finalize_ago,   \* now - self._pending_finalize_since
    wpc,                    \* where the worker thread is in run()
    text,                   \* run(): text
    existing,               \* the buffer value read as _merge_transcript's argument
    mf,                     \* _maybe_finalize(): words, ends_sentence, utterance_duration
    w_final,                \* _maybe_finalize(): final_text
    upc,                    \* where the UI thread is in _toggle_listening / stop()
    u_final,                \* stop(): final_text
    emitted,                \* the texts sent through the recognized signal, in order
    accepts,                \* segments accepted so far, counted up to MaxAccepts
    heard,                  \* history: the texts of the segments accepted so far
    seg_note,               \* history: the utterance as it was when the tick's segment arrived
    stop_note,              \* history: the listener as it was when stop() was entered
    device,                 \* the audio input device: what opening it does
    errors,                 \* how many times the error signal was emitted
    recal_ago,              \* now - self._last_recalibrate_ts
    threshold,              \* self.recognizer.energy_threshold
    delivered,              \* how many recognized signals have reached MainView._on_speech
    outstanding,            \* _process_ai_request tasks submitted to _executor and not finished
    credits,                \* MainView.credits
    mic_list,               \* run(): mic_list, the names of the audio devices
    microphone,             \* self.microphone: not built, the default device, or a device index
    energy_threshold,       \* ai_desktop.py: self.recognizer.energy_threshold
    original_threshold,     \* ai_desktop.py run(): original_threshold
    dpc,                    \* where ai_desktop.py's capture loop is
    threads,                \* where each SpeechRecognitionThread ever created is
    flags,                  \* each thread's self.running
    listener,               \* MainView.listener: 0 is None
    asked,                  \* questions that have reached _ask_ai
    last_dispatched,        \* the last question submitted to _executor, 0 if none
    inflight,               \* the questions whose _process_ai_request is running
    updates,                \* ai_update signals queued for the UI thread
    answers,                \* MainView.answers: the question it answers, 0 if none
    answers_since_last_credit, \* MainView.answers_since_last_credit
    deductions,             \* _deduct_credit_for_genuine_answer_bg tasks not yet run
    genuine,                \* genuine answers received so far
    use_credit_calls        \* requests sent to /use_credit

vars == <<running, listening, buffer_text, last_speech_ago, utterance_start_ago,
          pending_finalize_ago, wpc, text, existing, mf, w_final, upc, u_final,
          emitted, accepts, heard, seg_note, stop_note,
          device, errors, recal_ago, threshold, delivered, outstanding, credits,
          mic_list, microphone, energy_threshold, original_threshold, dpc,
          threads, flags, listener,
          asked, last_dispatched, inflight, updates, answers, answers_since_last_credit,
          deductions, genuine, use_credit_calls>>

station == <<device, errors, recal_ago, threshold>>

dispatch == <<delivered, outstanding, credits>>

selection == <<mic_list, microphone>>

desktop == <<energy_threshold, original_threshold, dpc>>

sessions == <<threads, flags, listener>>

answering == <<asked, last_dispatched, inflight, updates, answers, answers_since_last_credit,
               deductions, genuine, use_credit_calls>>

\* what the capture loop of ai_inter.py's SpeechRecognitionThread never touches
periphery == <<selection, desktop, sessions, answering>>

utterance == <<buffer_text, last_speech_ago, utterance_start_ago, pending_finalize_ago>>

worker_locals == <<text, existing, mf, w_final>>

ui == <<listening, upc, u_final>>

Aged(a, d, cap) == IF a = Unset THEN Unset ELSE Min(a + d, cap)

\* d hundredths of a second pass for the utterance's timestamps
ElapseUtterance(d) ==
    /\ last_speech_ago' = Aged(last_speech_ago, d, FinalSilence)
    /\ utterance_start_ago' = Aged(utterance_start_ago, d, MaxUtterance)
    /\ pending_finalize_ago' = Aged(pending_finalize_ago, d, FinalSilence)

\* The age of the last calibration is kept to the resolution of the period: it is
\* 0 until a single wait outlasts the period and RecalibrateEvery + 1 from then on;
\* waits shorter than the period are not added up.
AgedCoarse(a, d) ==
    IF a = Unset THEN Unset
    ELSE IF d > RecalibrateEvery THEN RecalibrateEvery + 1
    ELSE a

\* d hundredths of a second pass
Elapse(d) ==
    /\ ElapseUtterance(d)
    /\ recal_ago' = AgedCoarse(recal_ago, d)

\* stop() has been entered and has not returned to _toggle_listening's next statement
InStop ==
    upc \in {"stop_test", "stop_take", "stop_clear", "stop_reset", "stop_emit", "stop_quit"}

\* history: a step of the worker while stop() is under way
NoteWorker == stop_note' = IF InStop THEN Disturbed ELSE stop_note

\* no device has been enumerated or chosen
SelectionIdle == mic_list = << >> /\ microphone = NoMicrophone

\* ai_desktop.py's thread has not been started
DesktopIdle == energy_threshold = 0 /\ original_threshold = 0 /\ dpc = "off"

\* MainView.__init__: self.listener = None, no thread created
SessionsIdle ==
    /\ threads = [t \in 1..MaxThreads |-> "unborn"]
    /\ flags = [t \in 1..MaxThreads |-> FALSE]
    /\ listener = 0

\* MainView.__init__: nothing asked, nothing answered
AnsweringIdle ==
    /\ asked = 0
    /\ last_dispatched = 0
    /\ inflight = {}
    /\ updates = << >>
    /\ answers = 0
    /\ answers_since_last_credit = 0
    /\ deductions = 0
    /\ genuine = 0
    /\ use_credit_calls = 0

\* MainView and a SpeechRecognitionThread as constructed, with a working device
CoreIdle ==
    /\ running = FALSE
    /\ listening = FALSE
    /\ buffer_text = << >>
    /\ last_speech_ago = Unset
    /\ utterance_start_ago = Unset
    /\ pending_finalize_ago = Unset
    /\ wpc = "unstarted"
    /\ text = << >>
    /\ existing = << >>
    /\ mf = NoLocals
    /\ w_final = << >>
    /\ upc = "idle"
    /\ u_final = << >>
    /\ emitted = << >>
    /\ accepts = 0
    /\ heard = {}
    /\ seg_note = NoNote
    /\ stop_note = NoNote
    /\ device = "ok"
    /\ errors = 0
    /\ recal_ago = Unset
    /\ threshold = DefaultThreshold
    /\ delivered = 0
    /\ outstanding = 0

\* SpeechRecognitionThread.__init__
Init ==
    /\ running = FALSE
    /\ listening = FALSE
    /\ buffer_text = << >>
    /\ last_speech_ago = Unset
    /\ utterance_start_ago = Unset
    /\ pending_finalize_ago = Unset
    /\ wpc = "unstarted"
    /\ text = << >>
    /\ existing = << >>
    /\ mf = NoLocals
    /\ w_final = << >>
    /\ upc = "idle"
    /\ u_final = << >>
    /\ emitted = << >>
    /\ accepts = 0
    /\ heard = {}
    /\ seg_note = NoNote
    /\ stop_note = NoNote
    /\ device \in Devices
    /\ errors = 0
    /\ recal_ago = Unset
    /\ threshold = DefaultThreshold
    /\ delivered = 0
    /\ outstanding = 0
    /\ credits = 1
    /\ SelectionIdle
    /\ DesktopIdle
    /\ SessionsIdle
    /\ AnsweringIdle

\* ------------------------------------------------------------------------
\* The worker thread: SpeechRecognitionThread.run
\* ------------------------------------------------------------------------
\* line 171: self.running = True
RunBegin ==
    /\ wpc = "run"
    /\ running' = TRUE
    /\ wpc' = "init"
    /\ NoteWorker
    /\ UNCHANGED <<utterance, worker_locals, ui, emitted, accepts, heard, seg_note>>
    /\ UNCHANGED <<station, dispatch>>
    /\ UNCHANGED periphery

\* lines 172-222 and 335-336: the recognizer and the microphone are built; when
\* sr.Microphone() raises in the fallback too, the outer handler emits error once
\* and run() returns
RunInit ==
    /\ wpc = "init"
    /\ IF device = "absent"
       THEN /\ errors' = errors + 1
            /\ wpc' = "done"
       ELSE /\ errors' = errors
            /\ wpc' = "calibrate"
    /\ NoteWorker
    /\ UNCHANGED <<running, utterance, worker_locals, ui, emitted, accepts, heard, seg_note>>
    /\ UNCHANGED <<device, recal_ago, threshold, dispatch>>
    /\ UNCHANGED periphery

\* lines 225-231: adjust_for_ambient_noise(source, duration=0.6) measures the room
InitCalibrate ==
    /\ wpc = "calibrate"
    /\ device = "ok"
    /\ threshold' \in AmbientLevels
    /\ recal_ago' = 0
    /\ utterance_start_ago' = Unset
    /\ wpc' = "loop"
    /\ NoteWorker
    /\ UNCHANGED <<running, buffer_text, last_speech_ago, pending_finalize_ago,
                   worker_locals, ui, emitted, accepts, heard, seg_note>>
    /\ UNCHANGED <<device, errors, dispatch>>
    /\ UNCHANGED periphery

\* lines 225-227: opening the source or the measurement raises
InitCalibrateRaises ==
    /\ wpc = "calibrate"
    /\ wpc' = "calib_except"
    /\ NoteWorker
    /\ UNCHANGED <<running, utterance, worker_locals, ui, emitted, accepts, heard, seg_note>>
    /\ UNCHANGED <<station, dispatch>>
    /\ UNCHANGED periphery

\* lines 228-231: except Exception: pass, then the two timestamps
InitCalibratePass ==
    /\ wpc = "calib_except"
    /\ recal_ago' = 0
    /\ utterance_start_ago' = Unset
    /\ wpc' = "loop"
    /\ NoteWorker
    /\ UNCHANGED <<running, buffer_text, last_speech_ago, pending_finalize_ago,
                   worker_locals, ui, emitted, accepts, heard, seg_note>>
    /\ UNCHANGED <<device, errors, threshold, dispatch>>
    /\ UNCHANGED periphery

\* line 236: while self.running
LoopTest ==
    /\ wpc = "loop"
    /\ wpc' = IF running THEN "recal_test" ELSE "done"
    /\ seg_note' = NoNote
    /\ NoteWorker
    /\ UNCHANGED <<running, utterance, worker_locals, ui, emitted, accepts, heard>>
    /\ UNCHANGED <<station, dispatch>>
    /\ UNCHANGED periphery

\* lines 238-240: if now - self._last_recalibrate_ts > self._recalibrate_every_sec
RecalTest ==
    /\ wpc = "recal_test"
    /\ wpc' = IF recal_ago > RecalibrateEvery THEN "recalibrate" ELSE "listen"
    /\ NoteWorker
    /\ UNCHANGED <<running, utterance, worker_locals, ui, emitted, accepts, heard, seg_note>>
    /\ UNCHANGED <<station, dispatch>>
    /\ UNCHANGED periphery

\* lines 241-245: adjust_for_ambient_noise(source, duration=0.4), then the new timestamp
Recalibrate ==
    /\ wpc = "recalibrate"
    /\ device = "ok"
    /\ ElapseUtterance(RecalibrateDuration)
    /\ threshold' \in AmbientLevels
    /\ recal_ago' = 0
    /\ wpc' = "listen"
    /\ NoteWorker
    /\ UNCHANGED <<running, buffer_text, worker_locals, ui, emitted, accepts, heard, seg_note>>
    /\ UNCHANGED <<device, errors, dispatch>>
    /\ UNCHANGED periphery

\* a failing recalibration that throws the measured threshold away
RecalibrateRaisesResets ==
    /\ wpc = "recalibrate"
    /\ threshold' = DefaultThreshold
    /\ wpc' = "recal_except"
    /\ NoteWorker
    /\ UNCHANGED <<running, utterance, worker_locals, ui, emitted, accepts, heard, seg_note>>
    /\ UNCHANGED <<device, errors, recal_ago, dispatch>>
    /\ UNCHANGED periphery

\* lines 241-244: opening the source or the measurement raises
RecalibrateRaises ==
    /\ wpc = "recalibrate"
    /\ wpc' = "recal_except"
    /\ NoteWorker
    /\ UNCHANGED <<running, utterance, worker_locals, ui, emitted, accepts, heard, seg_note>>
    /\ UNCHANGED <<station, dispatch>>
    /\ UNCHANGED periphery

\* lines 246-247: except Exception: pass
RecalibratePass ==
    /\ wpc = "recal_except"
    /\ wpc' = "listen"
    /\ NoteWorker
    /\ UNCHANGED <<running, utterance, worker_locals, ui, emitted, accepts, heard, seg_note>>
    /\ UNCHANGED <<station, dispatch>>
    /\ UNCHANGED periphery

\* lines 249-257: listen() returns a clip
ListenAudio(delays) ==
    /\ wpc = "listen"
    /\ device = "ok"
    /\ \E d \in delays : Elapse(d)
    /\ wpc' = "check_running"
    /\ NoteWorker
    /\ UNCHANGED <<running, buffer_text, worker_locals, ui, emitted, accepts, heard, seg_note>>
    /\ UNCHANGED <<device, errors, threshold, dispatch>>
    /\ UNCHANGED periphery

\* lines 252, 318-320: listen() raises WaitTimeoutError; the handler calls _maybe_finalize
ListenTimedOut ==
    /\ wpc = "listen"
    /\ device = "ok"
    /\ Elapse(ListenTimeout)
    /\ wpc' = "mf"
    /\ NoteWorker
    /\ UNCHANGED <<running, buffer_text, worker_locals, ui, emitted, accepts, heard, seg_note>>
    /\ UNCHANGED <<device, errors, threshold, dispatch>>
    /\ UNCHANGED periphery

\* lines 249, 328-333: opening the source or listen() raises anything else; continue
ListenFailed ==
    /\ wpc = "listen"
    /\ wpc' = "loop"
    /\ NoteWorker
    /\ UNCHANGED <<running, utterance, worker_locals, ui, emitted, accepts, heard, seg_note>>
    /\ UNCHANGED <<station, dispatch>>
    /\ UNCHANGED periphery

\* lines 259-260: if not self.running: break
CheckRunning ==
    /\ wpc = "check_running"
    /\ wpc' = IF running THEN "recognize" ELSE "done"
    /\ NoteWorker
    /\ UNCHANGED <<running, utterance, worker_locals, ui, emitted, accepts, heard, seg_note>>
    /\ UNCHANGED <<station, dispatch>>
    /\ UNCHANGED periphery

\* The speech offered to the recognizer: MaxAccepts segments at any time, and after
\* them only repeats of buffered text in an utterance that has outlasted the cap.
Offered(raw) ==
    \/ Strip(raw) = << >>
    \/ accepts < MaxAccepts
    \/ utterance_start_ago = MaxUtterance /\ Contains(buffer_text, Strip(raw))

\* lines 264-300: transcription (every failure leaves text = ""), then text.strip()
Recognize ==
    /\ wpc = "recognize"
    /\ \E raw \in RawTexts :
          /\ Offered(raw)
          /\ text' = Strip(raw)
    /\ wpc' = "text"
    /\ NoteWorker
    /\ UNCHANGED <<running, utterance, existing, mf, w_final, ui, emitted, accepts, heard,
                   seg_note>>
    /\ UNCHANGED <<station, dispatch>>
    /\ UNCHANGED periphery

\* line 301: if text
TextTest ==
    /\ wpc = "text"
    /\ wpc' = IF text # << >> THEN "start" ELSE "mf"
    /\ seg_note' = IF text # << >>
                   THEN [set |-> TRUE, text |-> text, buf |-> buffer_text,
                         pend |-> pending_finalize_ago, n |-> Len(emitted)]
                   ELSE seg_note
    /\ NoteWorker
    /\ UNCHANGED <<running, utterance, worker_locals, ui, emitted, accepts, heard>>
    /\ UNCHANGED <<station, dispatch>>
    /\ UNCHANGED periphery

\* lines 303-304: start utterance timing on the first segment
StartTiming ==
    /\ wpc = "start"
    /\ utterance_start_ago' = IF utterance_start_ago = Unset THEN 0 ELSE utterance_start_ago
    /\ wpc' = "buffer_test"
    /\ NoteWorker
    /\ UNCHANGED <<running, buffer_text, last_speech_ago, pending_finalize_ago,
                   worker_locals, ui, emitted, accepts, heard, seg_note>>
    /\ UNCHANGED <<station, dispatch>>
    /\ UNCHANGED periphery

\* line 306: if self._buffer_text
BufferTest ==
    /\ wpc = "buffer_test"
    /\ wpc' = IF buffer_text # << >> THEN "merge_arg" ELSE "set"
    /\ NoteWorker
    /\ UNCHANGED <<running, utterance, worker_locals, ui, emitted, accepts, heard, seg_note>>
    /\ UNCHANGED <<station, dispatch>>
    /\ UNCHANGED periphery

\* line 307, the argument: self._buffer_text is read again
MergeArg ==
    /\ wpc = "merge_arg"
    /\ existing' = buffer_text
    /\ wpc' = "merge"
    /\ NoteWorker
    /\ UNCHANGED <<running, utterance, text, mf, w_final, ui, emitted, accepts, heard, seg_note>>
    /\ UNCHANGED <<station, dispatch>>
    /\ UNCHANGED periphery

\* line 307, the assignment: self._buffer_text = self._merge_transcript(..., text)
MergeStore ==
    /\ wpc = "merge"
    /\ buffer_text' = MergeTranscript(existing, text)
    /\ existing' = << >>
    /\ wpc' = "stamp"
    /\ NoteWorker
    /\ UNCHANGED <<running, last_speech_ago, utterance_start_ago, pending_finalize_ago,
                   text, mf, w_final, ui, emitted, accepts, heard, seg_note>>
    /\ UNCHANGED <<station, dispatch>>
    /\ UNCHANGED periphery

\* line 309: self._buffer_text = text
SetBuffer ==
    /\ wpc = "set"
    /\ buffer_text' = text
    /\ wpc' = "stamp"
    /\ NoteWorker
    /\ UNCHANGED <<running, last_speech_ago, utterance_start_ago, pending_finalize_ago,
                   worker_locals, ui, emitted, accepts, heard, seg_note>>
    /\ UNCHANGED <<station, dispatch>>
    /\ UNCHANGED periphery

\* the stamp without the reset of the pending finalization
StampKeepPending ==
    /\ wpc = "stamp"
    /\ last_speech_ago' = 0
    /\ accepts' = Min(accepts + 1, MaxAccepts)
    /\ heard' = heard \cup {text}
    /\ text' = << >>
    /\ wpc' = "mf"
    /\ NoteWorker
    /\ UNCHANGED <<running, buffer_text, utterance_start_ago, pending_finalize_ago,
                   existing, mf, w_final, ui, emitted, seg_note>>
    /\ UNCHANGED <<station, dispatch>>
    /\ UNCHANGED periphery

\* lines 310-313: self._last_speech_ts = time.time(); self._pending_finalize_since = 0.0
Stamp ==
    /\ wpc = "stamp"
    /\ last_speech_ago' = 0
    /\ pending_finalize_ago' = Unset
    /\ accepts' = Min(accepts + 1, MaxAccepts)
    /\ heard' = heard \cup {text}
    /\ text' = << >>
    /\ wpc' = "mf"
    /\ NoteWorker
    /\ UNCHANGED <<running, buffer_text, utterance_start_ago, existing, mf, w_final, ui,
                   emitted, seg_note>>
    /\ UNCHANGED <<station, dispatch>>
    /\ UNCHANGED periphery

\* ------------------------------------------------------------------------
\* The worker thread: SpeechRecognitionThread._maybe_finalize
\* ------------------------------------------------------------------------
\* a policy evaluation that does not test has_buffer
FinalizeEnterNoBufferTest ==
    /\ wpc = "mf"
    /\ wpc' = "mf_measure"
    /\ NoteWorker
    /\ UNCHANGED <<running, utterance, worker_locals, ui, emitted, accepts, heard, seg_note>>
    /\ UNCHANGED <<station, dispatch>>
    /\ UNCHANGED periphery

\* lines 339-342: has_buffer
FinalizeEnter ==
    /\ wpc = "mf"
    /\ wpc' = IF buffer_text # << >> /\ last_speech_ago # Unset THEN "mf_measure" ELSE "loop"
    /\ NoteWorker
    /\ UNCHANGED <<running, utterance, worker_locals, ui, emitted, accepts, heard, seg_note>>
    /\ UNCHANGED <<station, dispatch>>
    /\ UNCHANGED periphery

\* lines 343-347: silence, utterance_duration, words, ends_sentence
FinalizeMeasure ==
    /\ wpc = "mf_measure"
    /\ mf' = [words |-> WordCount(buffer_text),
              ends  |-> EndsSentence(buffer_text),
              dur   |-> IF utterance_start_ago # Unset THEN utterance_start_ago ELSE 0]
    /\ wpc' = "mf_decide"
    /\ NoteWorker
    /\ UNCHANGED <<running, utterance, text, existing, w_final, ui, emitted, accepts, heard,
                   seg_note>>
    /\ UNCHANGED <<station, dispatch>>
    /\ UNCHANGED periphery

\* a policy that finalizes a candidate at once
DecideNoWindow(is_short, candidate) == IF candidate THEN "mf_take" ELSE "loop"

\* lines 373-385: where _maybe_finalize goes: "loop" is a return, "arm" starts the
\* confirmation window, "mf_take" is the confirmed finalize
Decide(is_short, candidate) ==
    IF ~candidate THEN "loop"
    ELSE IF pending_finalize_ago = Unset THEN "arm"
    ELSE IF pending_finalize_ago < ConfirmHold(is_short) THEN "loop"
    ELSE "mf_take"

\* lines 349-385: is_short_question, candidate, the confirmation window
FinalizeDecide ==
    /\ wpc = "mf_decide"
    /\ LET is_short  == IsShortQuestion(mf.words, buffer_text)
           candidate == Candidate(mf.words, mf.ends, is_short, last_speech_ago, mf.dur)
           to        == Decide(is_short, candidate)
       IN  /\ pending_finalize_ago' = IF to = "arm" THEN 0 ELSE pending_finalize_ago
           /\ wpc' = IF to = "arm" THEN "loop" ELSE to
    /\ mf' = NoLocals
    /\ NoteWorker
    /\ UNCHANGED <<running, buffer_text, last_speech_ago, utterance_start_ago, text,
                   existing, w_final, ui, emitted, accepts, heard, seg_note>>
    /\ UNCHANGED <<station, dispatch>>
    /\ UNCHANGED periphery

\* line 387: final_text = self._buffer_text.strip()
FinalizeTake ==
    /\ wpc = "mf_take"
    /\ w_final' = Strip(buffer_text)
    /\ wpc' = "mf_clear"
    /\ NoteWorker
    /\ UNCHANGED <<running, utterance, text, existing, mf, ui, emitted, accepts, heard, seg_note>>
    /\ UNCHANGED <<station, dispatch>>
    /\ UNCHANGED periphery

\* line 388: self._buffer_text = ""
FinalizeClear ==
    /\ wpc = "mf_clear"
    /\ buffer_text' = << >>
    /\ wpc' = "mf_reset"
    /\ NoteWorker
    /\ UNCHANGED <<running, last_speech_ago, utterance_start_ago, pending_finalize_ago,
                   worker_locals, ui, emitted, accepts, heard, seg_note>>
    /\ UNCHANGED <<station, dispatch>>
    /\ UNCHANGED periphery

\* lines 389-390: self._utterance_start_ts = 0.0; self._pending_finalize_since = 0.0
FinalizeReset ==
    /\ wpc = "mf_reset"
    /\ utterance_start_ago' = Unset
    /\ pending_finalize_ago' = Unset
    /\ wpc' = "mf_emit"
    /\ NoteWorker
    /\ UNCHANGED <<running, buffer_text, last_speech_ago, worker_locals, ui, emitted,
                   accepts, heard, seg_note>>
    /\ UNCHANGED <<station, dispatch>>
    /\ UNCHANGED periphery

\* an emission that returns only when no request is outstanding
FinalizeEmitAwaitsAnswer ==
    /\ wpc = "mf_emit"
    /\ outstanding = 0
    /\ delivered = Len(emitted)
    /\ emitted' = IF w_final # << >> THEN Append(emitted, w_final) ELSE emitted
    /\ w_final' = << >>
    /\ wpc' = "loop"
    /\ NoteWorker
    /\ UNCHANGED <<running, utterance, text, existing, mf, ui, accepts, heard, seg_note>>
    /\ UNCHANGED <<station, dispatch>>
    /\ UNCHANGED periphery

\* lines 391-393: if final_text: self.recognized.emit(final_text)
FinalizeEmit ==
    /\ wpc = "mf_emit"
    /\ emitted' = IF w_final # << >> THEN Append(emitted, w_final) ELSE emitted
    /\ w_final' = << >>
    /\ wpc' = "loop"
    /\ NoteWorker
    /\ UNCHANGED <<running, utterance, text, existing, mf, ui, accepts, heard, seg_note>>
    /\ UNCHANGED <<station, dispatch>>
    /\ UNCHANGED periphery

\* ------------------------------------------------------------------------
\* The UI thread: MainView._toggle_listening and SpeechRecognitionThread.stop
\* ------------------------------------------------------------------------
\* lines 1072-1103: create the listener and start its thread
ToggleStart ==
    /\ upc = "idle"
    /\ wpc = "unstarted"
    /\ listening' = TRUE
    /\ upc' = "listening"
    /\ wpc' = "run"
    /\ stop_note' = stop_note
    /\ UNCHANGED <<running, utterance, worker_locals, u_final, emitted, accepts, heard, seg_note>>
    /\ UNCHANGED <<station, dispatch>>
    /\ UNCHANGED periphery

\* lines 1060-1069: self.listening = False, up to the call of listener.stop()
ToggleStop ==
    /\ upc = "listening"
    /\ listening' = FALSE
    /\ upc' = "stop"
    /\ UNCHANGED <<running, utterance, wpc, worker_locals, u_final, stop_note, emitted,
                   accepts, heard, seg_note>>
    /\ UNCHANGED <<station, dispatch>>
    /\ UNCHANGED periphery

\* line 418: self.running = False
StopFlag ==
    /\ upc = "stop"
    /\ running' = FALSE
    /\ stop_note' = [set |-> TRUE, calm |-> TRUE, buf |-> buffer_text, n |-> Len(emitted)]
    /\ upc' = "stop_test"
    /\ UNCHANGED <<listening, utterance, wpc, worker_locals, u_final, emitted, accepts, heard,
                   seg_note>>
    /\ UNCHANGED <<station, dispatch>>
    /\ UNCHANGED periphery

\* line 420: if self._buffer_text
StopTest ==
    /\ upc = "stop_test"
    /\ upc' = IF buffer_text # << >> THEN "stop_take" ELSE "stop_quit"
    /\ UNCHANGED <<running, listening, utterance, wpc, worker_locals, u_final, stop_note,
                   emitted, accepts, heard, seg_note>>
    /\ UNCHANGED <<station, dispatch>>
    /\ UNCHANGED periphery

\* line 421: final_text = self._buffer_text.strip()
StopTake ==
    /\ upc = "stop_take"
    /\ u_final' = Strip(buffer_text)
    /\ upc' = "stop_clear"
    /\ UNCHANGED <<running, listening, utterance, wpc, worker_locals, stop_note, emitted,
                   accepts, heard, seg_note>>
    /\ UNCHANGED <<station, dispatch>>
    /\ UNCHANGED periphery

\* line 422: self._buffer_text = ""
StopClear ==
    /\ upc = "stop_clear"
    /\ buffer_text' = << >>
    /\ upc' = "stop_reset"
    /\ UNCHANGED <<running, listening, last_speech_ago, utterance_start_ago,
                   pending_finalize_ago, wpc, worker_locals, u_final, stop_note, emitted,
                   accepts, heard, seg_note>>
    /\ UNCHANGED <<station, dispatch>>
    /\ UNCHANGED periphery

\* line 423: self._utterance_start_ts = 0.0
StopReset ==
    /\ upc = "stop_reset"
    /\ utterance_start_ago' = Unset
    /\ upc' = "stop_emit"
    /\ UNCHANGED <<running, listening, buffer_text, last_speech_ago, pending_finalize_ago,
                   wpc, worker_locals, u_final, stop_note, emitted, accepts, heard, seg_note>>
    /\ UNCHANGED <<station, dispatch>>
    /\ UNCHANGED periphery

\* a flush that forgets the text it took
StopEmitNothing ==
    /\ upc = "stop_emit"
    /\ u_final' = << >>
    /\ upc' = "stop_quit"
    /\ UNCHANGED <<running, listening, utterance, wpc, worker_locals, stop_note, emitted,
                   accepts, heard, seg_note>>
    /\ UNCHANGED <<station, dispatch>>
    /\ UNCHANGED periphery

\* lines 424-425: if final_text: self.recognized.emit(final_text)
StopEmit ==
    /\ upc = "stop_emit"
    /\ emitted' = IF u_final # << >> THEN Append(emitted, u_final) ELSE emitted
    /\ u_final' = << >>
    /\ upc' = "stop_quit"
    /\ UNCHANGED <<running, listening, utterance, wpc, worker_locals, stop_note, accepts, heard,
                   seg_note>>
    /\ UNCHANGED <<station, dispatch>>
    /\ UNCHANGED periphery

\* lines 1070-1071: self.listener.quit(); self.listener = None
StopQuit ==
    /\ upc = "stop_quit"
    /\ upc' = "stopped"
    /\ UNCHANGED <<running, listening, utterance, wpc, worker_locals, u_final, stop_note,
                   emitted, accepts, heard, seg_note>>
    /\ UNCHANGED <<station, dispatch>>
    /\ UNCHANGED periphery

\* lines 1112-1121: the slot of the error signal: self.listening = False, then
\* listener.stop(), listener.quit(), listener = None as in _toggle_listening
OnListenError ==
    /\ errors > 0
    /\ upc = "listening"
    /\ listening' = FALSE
    /\ upc' = "stop"
    /\ UNCHANGED <<running, utterance, wpc, worker_locals, u_final, stop_note, emitted,
                   accepts, heard, seg_note>>
    /\ UNCHANGED <<station, dispatch>>
    /\ UNCHANGED periphery

\* the UI thread is in its event loop, free to run a queued slot
UiFree == upc \in {"idle", "listening", "stopped"}

\* lines 1126-1139 and 1258-1272: the slot of the recognized signal, queued to the
\* UI thread: _on_speech calls _ask_ai, which submits _process_ai_request to
\* _executor when credits are left and returns
OnSpeech ==
    /\ UiFree
    /\ delivered < Len(emitted)
    /\ delivered' = delivered + 1
    /\ outstanding' = IF credits > 0 THEN outstanding + 1 ELSE outstanding
    /\ UNCHANGED <<running, utterance, wpc, worker_locals, ui, stop_note, emitted,
                   accepts, heard, seg_note>>
    /\ UNCHANGED <<station, credits>>
    /\ UNCHANGED periphery

\* lines 1274-1397: a request finishes on an executor thread (answer, error or
\* timeout); the update it sends may carry the credits the server has left
AiResponds ==
    /\ outstanding > 0
    /\ outstanding' = outstanding - 1
    /\ credits' \in 0..credits
    /\ UNCHANGED <<running, utterance, wpc, worker_locals, ui, stop_note, emitted,
                   accepts, heard, seg_note>>
    /\ UNCHANGED <<station, delivered>>
    /\ UNCHANGED periphery

\* ------------------------------------------------------------------------
\* The listening session: the worker thread interleaved with the UI thread
\* ------------------------------------------------------------------------
Worker ==
    \/ RunBegin \/ RunInit \/ InitCalibrate \/ InitCalibrateRaises \/ InitCalibratePass
    \/ LoopTest \/ RecalTest \/ Recalibrate \/ RecalibrateRaises \/ RecalibratePass
    \/ ListenAudio(LongDelays) \/ ListenTimedOut \/ ListenFailed
    \/ CheckRunning \/ Recognize \/ TextTest
    \/ StartTiming \/ BufferTest \/ MergeArg \/ MergeStore \/ SetBuffer \/ Stamp
    \/ FinalizeEnter \/ FinalizeMeasure \/ FinalizeDecide
    \/ FinalizeTake \/ FinalizeClear \/ FinalizeReset \/ FinalizeEmit

Stop ==
    \/ StopFlag \/ StopTest \/ StopTake \/ StopClear \/ StopReset \/ StopEmit \/ StopQuit

Next == Worker \/ ToggleStart \/ ToggleStop \/ OnListenError \/ Stop

Spec == Init /\ [][Next]_vars

\* ------------------------------------------------------------------------
\* The capture loop alone, never stopped, with clips of every length
\* ------------------------------------------------------------------------
Capture ==
    \/ RunBegin \/ RunInit \/ InitCalibrate \/ InitCalibrateRaises \/ InitCalibratePass
    \/ LoopTest \/ RecalTest \/ Recalibrate \/ RecalibrateRaises \/ RecalibratePass
    \/ ListenAudio(AudioDelays) \/ ListenTimedOut \/ ListenFailed
    \/ CheckRunning \/ Recognize \/ TextTest
    \/ StartTiming \/ BufferTest \/ MergeArg \/ MergeStore \/ SetBuffer \/ Stamp
    \/ FinalizeEnter \/ FinalizeMeasure \/ FinalizeDecide
    \/ FinalizeTake \/ FinalizeClear \/ FinalizeReset \/ FinalizeEmit

CaptureNext == ToggleStart \/ Capture

\* the statements of run() and _maybe_finalize() the thread can be at
WorkerPositions ==
    {"run", "init", "calibrate", "calib_except", "loop", "recal_test", "recalibrate",
     "recal_except", "listen", "check_running", "recognize", "text",
     "start", "buffer_test", "merge_arg", "merge", "set", "stamp",
     "mf", "mf_measure", "mf_decide", "mf_take", "mf_clear", "mf_reset", "mf_emit",
     "done"}

\* the thread executes the statement it is at: every disjunct of Capture moves
\* wpc to another statement, and one of them is enabled at every statement of
\* a started, unfinished thread
WorkerAdvances ==
    /\ wpc \in WorkerPositions \ {"done"}
    /\ wpc' \in WorkerPositions \ {wpc}

\* the thread keeps running, and listen() keeps returning a clip or timing out
CaptureSpec ==
    /\ Init
    /\ [][CaptureNext]_vars
    /\ WF_wpc(WorkerAdvances)
    /\ SF_vars(ListenAudio(AudioDelays) \/ ListenTimedOut)

\* ------------------------------------------------------------------------
\* The capture loop and the dispatch of its emissions to the language model
\* ------------------------------------------------------------------------
DispatchNext == ToggleStart \/ Worker \/ OnSpeech \/ AiResponds

DispatchSpec == Init /\ [][DispatchNext]_vars

\* ------------------------------------------------------------------------
\* Folding one segment into the buffer, for every buffer and every segment
\* ------------------------------------------------------------------------
\* lines 300-309: the buffer after a recognizer result `raw`
BufferAfterSegment(buf, raw) ==
    LET t == Strip(raw)
    IN  IF t = << >> THEN buf
        ELSE IF buf # << >> THEN MergeTranscript(buf, t)
        ELSE t

Alphabet == {"a", "b", " "}

Strings(n) == UNION {[1..k -> Alphabet] : k \in 0..n}

Rep(c, n) == [i \in 1..n |-> c]

\* an overlap one character longer than the scan looks for
LongTail == <<"b">> \o Rep("a", MaxOverlap + 1)

LongHead == Rep("a", MaxOverlap + 1) \o <<"b">>

Examples ==
    {TellMeAbout, TheWeather, TellMeAboutYour, YourLastProject, WhatIs, IsYour,
     WhatIsYour, WhatIsYourGreatestWeakness, LongTail, LongHead}

\* the buffer is always a stripped text: run() stores text.strip() or a merge result
MergeBuffers == {s \in Strings(MaxLen) : Strip(s) = s} \cup Examples

MergeTexts == Strings(MaxLen) \cup Examples

MergeInit ==
    /\ running = TRUE
    /\ listening = TRUE
    /\ buffer_text \in MergeBuffers
    /\ last_speech_ago = Unset
    /\ utterance_start_ago = Unset
    /\ pending_finalize_ago = Unset
    /\ wpc = "segment"
    /\ text \in MergeTexts
    /\ existing = << >>
    /\ mf = NoLocals
    /\ w_final = << >>
    /\ upc = "listening"
    /\ u_final = << >>
    /\ emitted = << >>
    /\ accepts = 0
    /\ heard = {}
    /\ seg_note = NoNote
    /\ stop_note = NoNote
    /\ device = "ok"
    /\ errors = 0
    /\ recal_ago = Unset
    /\ threshold = DefaultThreshold
    /\ delivered = 0
    /\ outstanding = 0
    /\ credits = 1
    /\ SelectionIdle
    /\ DesktopIdle
    /\ SessionsIdle
    /\ AnsweringIdle

\* lines 300-309 in one step; `existing` keeps the buffer the segment met
FoldSegment ==
    /\ wpc = "segment"
    /\ existing' = buffer_text
    /\ buffer_text' = BufferAfterSegment(buffer_text, text)
    /\ wpc' = "folded"
    /\ UNCHANGED <<running, last_speech_ago, utterance_start_ago, pending_finalize_ago,
                   text, mf, w_final, ui, emitted, accepts, heard, seg_note, stop_note>>
    /\ UNCHANGED <<station, dispatch>>
    /\ UNCHANGED periphery

MergeNext == FoldSegment

MergeSpec == MergeInit /\ [][MergeNext]_vars

\* ------------------------------------------------------------------------
\* Claims about the merge
\* ------------------------------------------------------------------------
Suffix(s, k) == Slice(s, Len(s) - k + 1, Len(s))

Prefix(s, k) == Slice(s, 1, k)

\* a segment was folded, and neither text holds the other
Disjoint(b, s) == b # << >> /\ s # << >> /\ ~Contains(b, s) /\ ~Contains(s, b)

\* the last words of b are the first words of s
SeamWords(b, s) ==
    \E k \in 1..Min(Len(b), Len(s)) :
        /\ Suffix(b, k) = Prefix(s, k)
        /\ k = Len(b) \/ IsSpace(b[Len(b) - k])
        /\ k = Len(s) \/ IsSpace(s[k + 1])

\* the overlap lengths the scan may use
Overlaps(b, s) ==
    {k \in 1..Min(20, Min(Len(b), Len(s))) : Suffix(b, k) = Prefix(s, k)}

Largest(K) == CHOOSE k \in K : \A j \in K : j <= k

\* C7: two texts that do not hold one another and repeat no word at the seam are
\* joined with a single space: "tell me about" and "the weather" give
\* "tell me about the weather".
C7_NoOverlapConcatenation ==
    (wpc = "folded" /\ Disjoint(existing, Strip(text)) /\ ~SeamWords(existing, Strip(text)))
        => buffer_text = existing \o <<" ">> \o Strip(text)

\* C8: when the buffer's last k characters are the segment's first k for some k up
\* to min(20, len(buffer), len(segment)) and neither text holds the other, the
\* result is buffer + segment[k:] for the largest such k.
C8_OverlapMerge ==
    (wpc = "folded" /\ Disjoint(existing, Strip(text))
                    /\ Overlaps(existing, Strip(text)) # {})
        => LET s == Strip(text)
           IN  buffer_text = existing \o Slice(s, Largest(Overlaps(existing, s)) + 1, Len(s))

C8_Witness ==
    /\ wpc = "folded"
    /\ existing = TellMeAboutYour
    /\ text = YourLastProject
    /\ buffer_text = TellMeAboutYour \o <<" ", "l", "a", "s", "t", " ", "p", "r", "o", "j", "e", "c", "t">>

\* C9: a segment that is a substring of the buffer leaves the buffer unchanged.
C9_MergeIdempotence ==
    (wpc = "folded" /\ Contains(existing, Strip(text))) => buffer_text = existing

C9_Witness ==
    /\ wpc = "folded"
    /\ existing = WhatIsYour
    /\ text = IsYour
    /\ buffer_text = WhatIsYour

\* the five steps of the merge, in order
FiveStepMerge(b, s) ==
    IF b = << >> THEN s
    ELSE IF Contains(b, s) THEN b
    ELSE IF Contains(s, b) THEN s
    ELSE IF Overlaps(b, s) # {} THEN b \o Slice(s, Largest(Overlaps(b, s)) + 1, Len(s))
    ELSE b \o <<" ">> \o s

\* C10: for every stripped buffer and segment, the buffer after the segment is the
\* result of the five-step merge: empty buffer -> segment; segment in buffer ->
\* buffer; buffer in segment -> segment; longest overlap of at most 20 characters
\* -> buffer + segment[k:]; otherwise buffer + " " + segment.
C10_FiveStepMerge ==
    wpc = "folded" => buffer_text = FiveStepMerge(existing, Strip(text))

C10_Witness ==
    /\ wpc = "folded"
    /\ existing = WhatIs
    /\ text = WhatIsYourGreatestWeakness
    /\ buffer_text = WhatIsYourGreatestWeakness

\* ------------------------------------------------------------------------
\* Claims about stop()
\* ------------------------------------------------------------------------
\* C1: no buffered text is dropped on stop: once stop() has been called and the
\* capture loop has exited, every accepted segment has been emitted (the buffer
\* is empty and every accepted text is part of an emission), a segment whose
\* transcription was under way when stop() ran included.
C1_NothingDroppedOnStop ==
    (upc = "stopped" /\ wpc = "done")
        => /\ buffer_text = << >>
           /\ \A t \in heard : \E i \in 1..Len(emitted) : Contains(emitted[i], t)

\* C2: stop() on a non-empty buffer, with no step of the worker in between, makes
\* exactly one emission, the stripped buffer, and leaves the buffer empty and the
\* utterance start cleared; stop() on an empty buffer emits nothing.
C2_StopFlushes ==
    (upc = "stop_quit" /\ stop_note.set /\ stop_note.calm)
        => IF stop_note.buf # << >>
           THEN /\ Len(emitted) = stop_note.n + 1
                /\ emitted[Len(emitted)] = Strip(stop_note.buf)
                /\ buffer_text = << >>
                /\ utterance_start_ago = Unset
           ELSE Len(emitted) = stop_note.n

C2_Witness ==
    /\ upc = "stop_quit"
    /\ stop_note.set /\ stop_note.calm
    /\ stop_note.buf = NineWords
    /\ emitted = <<NineWords>>
    /\ wpc = "listen"

\* ------------------------------------------------------------------------
\* Claims about the finalize policy
\* ------------------------------------------------------------------------
\* C3: when segments keep arriving on every tick, an utterance that has lasted the
\* 75 s cap is finalized and emitted: the buffer does not outlive the cap forever.
C3_MaxDurationValve ==
    (buffer_text # << >> /\ utterance_start_ago = MaxUtterance) ~> (buffer_text = << >>)

\* the only segment so far is "what is your name?"
OnlyTheQuestion == accepts = 1 /\ heard = {WhatIsYourName}

\* a step that ends a tick: _maybe_finalize returns to the capture loop
TickEnds == wpc \in {"mf", "mf_measure", "mf_decide", "mf_emit"} /\ wpc' = "loop"

\* C4, as claimed: once a tick has been evaluated 0.6 s or more after the segment
\* "what is your name?", the utterance has been emitted with exactly that text.
C4_FinalizedAfter600ms ==
    [][TickEnds => ((OnlyTheQuestion /\ last_speech_ago >= 60)
                        => (buffer_text = << >> /\ emitted = <<WhatIsYourName>>))']_vars

\* where the question stands once a tick has been evaluated
QuestionAfterTick ==
    OnlyTheQuestion
        => \/ /\ buffer_text = WhatIsYourName
              /\ pending_finalize_ago = Unset
              /\ last_speech_ago < ShortQuestionSilence
           \/ /\ buffer_text = WhatIsYourName
              /\ pending_finalize_ago # Unset
              /\ pending_finalize_ago < ShortQuestionHold
              /\ last_speech_ago >= ShortQuestionSilence
           \/ /\ buffer_text = << >>
              /\ emitted = <<WhatIsYourName>>
              /\ last_speech_ago >= ShortQuestionSilence + ShortQuestionHold

\* C4, amended: the tick that first sees 0.55 s of silence opens the confirmation
\* window, and the first tick 0.22 s or more after that one emits exactly
\* "what is your name?": after every tick the question is either less than 0.55 s
\* old, or in a window less than 0.22 s old, or emitted.
C4_ShortQuestionFinalize == [][TickEnds => QuestionAfterTick']_vars

C4_Witness ==
    /\ wpc = "loop"
    /\ OnlyTheQuestion
    /\ buffer_text = << >>
    /\ emitted = <<WhatIsYourName>>

\* the hold that applies to a buffer
HoldOf(buf) == ConfirmHold(IsShortQuestion(WordCount(buf), buf))

\* the tick's segment arrived while a finalize was pending and its hold had not elapsed
Debounced ==
    /\ wpc = "loop"
    /\ seg_note.set
    /\ seg_note.buf # << >>
    /\ seg_note.pend # Unset
    /\ seg_note.pend < HoldOf(seg_note.buf)

\* C5, as claimed: a segment accepted during the confirmation hold clears
\* pendingFinalizeSince, the tick ends in ACCUMULATING with nothing emitted, and
\* the buffer is the merge of the earlier text and the segment.
C5_DebounceClearsPending ==
    Debounced
        => /\ pending_finalize_ago = Unset
           /\ Len(emitted) = seg_note.n
           /\ buffer_text = MergeTranscript(seg_note.buf, seg_note.text)

\* C5, amended: the same, except that in an utterance that has lasted the 75 s
\* cap the tick's own finalize evaluation opens a new confirmation window, so the
\* tick ends with pendingFinalizeSince = now instead of cleared.
C5_Debounce ==
    Debounced
        => /\ IF utterance_start_ago >= MaxUtterance
              THEN pending_finalize_ago = 0
              ELSE pending_finalize_ago = Unset
           /\ Len(emitted) = seg_note.n
           /\ buffer_text = MergeTranscript(seg_note.buf, seg_note.text)

C5_Witness ==
    /\ Debounced
    /\ pending_finalize_ago = Unset
    /\ seg_note.buf = NineWords
    /\ seg_note.text = WhatIsYourName
    /\ buffer_text = NineWords \o <<" ">> \o WhatIsYourName

\* a buffer of fewer than ten words without sentence-ending punctuation
ShortPlain ==
    /\ buffer_text # << >>
    /\ WordCount(buffer_text) < LongWords
    /\ ~EndsSentence(buffer_text)

\* C6: a non-empty buffer of fewer than 10 words without sentence-ending
\* punctuation is finalized and emitted if no new speech arrives: after a tick at
\* 3.3 s of silence the confirmation window is open and younger than the hold, and
\* the buffer is eventually emptied or joined by a new segment.
C6_HardSilence ==
    /\ [][TickEnds => ((ShortPlain /\ last_speech_ago >= FinalSilence)
                => (pending_finalize_ago # Unset /\ pending_finalize_ago < ConfirmPause))']_vars
    /\ (ShortPlain ~> (buffer_text = << >> \/ wpc = "start"))

C6_Witness ==
    /\ wpc = "mf_emit"
    /\ w_final = NineWords
    /\ last_speech_ago >= FinalSilence
    /\ heard = {NineWords}

\* ------------------------------------------------------------------------
\* Claims about idle ticks and the utterance's fields
\* ------------------------------------------------------------------------
\* a timestamp field is what it was: unset if it was unset, else no younger
SameField(ago_before, ago_after) ==
    IF ago_before = Unset THEN ago_after = Unset
    ELSE ago_after # Unset /\ ago_after >= ago_before

\* no utterance is buffered, no text is in hand and no finalize is under way
Idle == buffer_text = << >> /\ text = << >> /\ w_final = << >>

\* C11: with an empty buffer, a tick that produces no text changes none of
\* bufferedText, startedAt, lastSpeechAt, pendingFinalizeSince and emits nothing;
\* no emission happens after a finalization until a new segment is accepted, so
\* there are never more emissions than accepted segments.
C11_IdleTickNoOp ==
    /\ [][(Idle /\ text' = << >>)
            => /\ buffer_text' = << >>
               /\ SameField(utterance_start_ago, utterance_start_ago')
               /\ SameField(last_speech_ago, last_speech_ago')
               /\ SameField(pending_finalize_ago, pending_finalize_ago')
               /\ emitted' = emitted]_vars
    /\ [](Len(emitted) <= accepts)

\* an idle tick after a finalization has reached the policy evaluation
C11_Witness ==
    /\ wpc = "mf"
    /\ Idle
    /\ emitted = <<WhatIsYourName>>
    /\ last_speech_ago = FinalSilence

\* neither thread is in the middle of accepting, finalizing or flushing
Quiescent == wpc \in {"loop", "done"} /\ ~InStop

\* C12: under every interleaving of the worker loop with stop(), whenever neither
\* thread is in the middle of an update, bufferedText is empty if and only if
\* startedAt is null.
C12_BufferIffStarted ==
    Quiescent => ((buffer_text = << >>) <=> (utterance_start_ago = Unset))

\* C13: whenever pendingFinalizeSince is set it is at or after lastSpeechAt: the
\* pending finalization is never older than the last speech.
C13_PendingAfterSpeech ==
    pending_finalize_ago # Unset
        => (last_speech_ago # Unset /\ pending_finalize_ago <= last_speech_ago)

\* a confirmation window opened after a silence
C13_Witness ==
    /\ wpc = "loop"
    /\ buffer_text = NineWords
    /\ pending_finalize_ago = 0
    /\ last_speech_ago = FinalSilence

\* ------------------------------------------------------------------------
\* Claims about the threads
\* ------------------------------------------------------------------------
\* C14: emitting a finalized utterance never waits for the language model: the
\* emission is enabled whatever requests are outstanding or undelivered, it
\* returns to the loop without touching the requests, and every later step of the
\* worker leaves them alone too.
C14_EmitDoesNotBlock ==
    /\ [](wpc = "mf_emit" => ENABLED FinalizeEmit)
    /\ [][wpc' # wpc => dispatch' = dispatch]_vars
    /\ [][wpc = "mf_emit" /\ wpc' # wpc => wpc' = "loop"]_vars

\* a second utterance is emitted while the request for the first is outstanding
C14_Witness ==
    /\ wpc = "loop"
    /\ Len(emitted) = 2
    /\ delivered = 1
    /\ outstanding = 1

\* C15: once stop() has been invoked on a started listener and has returned, the
\* capture loop starts no further iteration: its next loop test ends the loop.
C15_StopEndsLoop ==
    [][(upc = "stopped" /\ wpc = "loop" /\ wpc' # wpc) => wpc' = "done"]_vars

\* C16: bufferedText, startedAt, lastSpeechAt and pendingFinalizeSince are written
\* by the capture-loop worker thread only: a step that changes any of them is a
\* step of the worker, never a step of the UI thread.
C16_SingleWriter ==
    [][utterance' # utterance => (wpc' # wpc /\ upc' = upc)]_vars

\* ------------------------------------------------------------------------
\* Claims about failures, the device and calibration
\* ------------------------------------------------------------------------
\* C17: a capture attempt that fails recoverably (timeout, unrecognized speech,
\* service error, any other exception of the attempt) keeps the loop running and
\* still evaluates the finalize policy in the same iteration: the attempt is
\* followed by _maybe_finalize unless it returned a clip, and a clip's
\* transcription always is, so that a buffered utterance gets its evaluation.
C17_FailedAttemptEvaluates ==
    /\ [][(wpc = "listen" /\ buffer_text # << >> /\ wpc' \notin {"listen", "check_running"})
            => wpc' = "mf"]_vars
    /\ [][(wpc = "text" /\ wpc' # wpc /\ text = << >>) => wpc' = "mf"]_vars

\* C18: when the microphone cannot be opened at all, the failure is reported
\* exactly once through the error signal and the session does not start: the
\* thread is never at a statement of the capture loop, and once it has left the
\* initialisation it has ended with one error emitted.
C18_DeviceFatal ==
    device # "ok"
        => /\ wpc \in {"unstarted", "run", "init", "calibrate", "calib_except", "done"}
           /\ errors <= 1
           /\ (wpc = "done" /\ running) => errors = 1

\* C19: the periodic recalibration never runs while an utterance is in flight:
\* whenever the worker is recalibrating, the buffer is empty.
C19_RecalibrationOnlyIdle ==
    wpc = "recalibrate" => buffer_text = << >>

\* the worker is in the handler of a failed calibration, initial or periodic
CalibrationFailed == wpc \in {"calib_except", "recal_except"}

\* C20: a failed calibration, initial or periodic, is not fatal: the failure
\* leaves the energy threshold and the utterance as they were, and the handler
\* goes on to the capture loop, changing nothing of the utterance or the threshold.
C20_CalibrationFailureNonFatal ==
    /\ [][(~CalibrationFailed /\ CalibrationFailed')
            => (threshold' = threshold /\ utterance' = utterance /\ errors' = errors)]_vars
    /\ [][(CalibrationFailed /\ wpc' # wpc)
            => /\ wpc' = IF wpc = "calib_except" THEN "loop" ELSE "listen"
               /\ threshold' = threshold
               /\ buffer_text' = buffer_text
               /\ last_speech_ago' = last_speech_ago
               /\ pending_finalize_ago' = pending_finalize_ago
               /\ SameField(utterance_start_ago, utterance_start_ago')
               /\ errors' = errors]_vars

\* a periodic recalibration has failed on a calibrated recognizer with an
\* utterance buffered, and the loop has gone on to listen
C20_Witness ==
    /\ wpc = "listen"
    /\ recal_ago > RecalibrateEvery
    /\ threshold \in AmbientLevels
    /\ buffer_text = NineWords

\* ------------------------------------------------------------------------
\* One evaluation of _maybe_finalize on a buffered utterance
\* ------------------------------------------------------------------------
\* nine plain words followed by a closing phrase, by a full stop, or preceded by
\* a closing phrase
NineWordsThankYou == NineWords \o <<" ">> \o ThankYou

NineWordsStop == NineWords \o <<".">>

ThankYouNineWords == ThankYou \o <<" ">> \o NineWords

\* the buffers the evaluation is run on
PolicyTexts ==
    {WhatIsYourName, NineWords, NineWordsThankYou, NineWordsStop, ThankYouNineWords}

\* the silences the evaluation is run at: on each side of every threshold
PolicySilences ==
    {0, ShortQuestionSilence, SentenceSilence - 1, SentenceSilence, ShortSilence - 1,
     ShortSilence, FinalSilence}

\* the ages of an open confirmation window
PolicyWindows == {Unset, 0, ShortQuestionHold, ConfirmPause}

\* a capture loop that holds one buffered utterance and is about to evaluate it
PolicyInit ==
    /\ running = TRUE
    /\ listening = TRUE
    /\ buffer_text \in PolicyTexts
    /\ last_speech_ago \in PolicySilences
    /\ utterance_start_ago \in {last_speech_ago, MaxUtterance}
    /\ pending_finalize_ago \in {w \in PolicyWindows : w <= last_speech_ago}
    /\ wpc = "mf"
    /\ text = << >>
    /\ existing = << >>
    /\ mf = NoLocals
    /\ w_final = << >>
    /\ upc = "listening"
    /\ u_final = << >>
    /\ emitted = << >>
    /\ accepts = 1
    /\ heard = {buffer_text}
    /\ seg_note = NoNote
    /\ stop_note = NoNote
    /\ device = "ok"
    /\ errors = 0
    /\ recal_ago = 0
    /\ threshold = DefaultThreshold
    /\ delivered = 0
    /\ outstanding = 0
    /\ credits = 1
    /\ SelectionIdle
    /\ DesktopIdle
    /\ SessionsIdle
    /\ AnsweringIdle

PolicyNext ==
    \/ FinalizeEnter \/ FinalizeMeasure \/ FinalizeDecide
    \/ FinalizeTake \/ FinalizeClear \/ FinalizeReset \/ FinalizeEmit

PolicySpec == PolicyInit /\ [][PolicyNext]_vars

\* ------------------------------------------------------------------------
\* Claims about the confirmation window and the sentence-end rule
\* ------------------------------------------------------------------------
\* C22: the tick that finds a candidate with no window open sets
\* pendingFinalizeSince to now and returns with nothing emitted; the policy goes
\* on to finalize only on a tick that accepted no segment, with a window at least
\* as old as the buffer's hold (0.22 s for a short question, 0.7 s otherwise) and
\* opened after the last accepted segment; and only the finalize steps and no
\* other step of the capture loop emit.
C22_ConfirmationWindow ==
    /\ [][(wpc = "mf_decide" /\ wpc' # wpc /\ pending_finalize_ago = Unset)
            => /\ wpc' = "loop"
               /\ pending_finalize_ago' \in {Unset, 0}
               /\ emitted' = emitted]_vars
    /\ [][(wpc = "mf_decide" /\ wpc' = "mf_take")
            => /\ pending_finalize_ago # Unset
               /\ pending_finalize_ago >= HoldOf(buffer_text)
               /\ pending_finalize_ago <= last_speech_ago
               /\ ~seg_note.set]_vars
    /\ [][(emitted' # emitted /\ wpc' # wpc)
            => (wpc = "mf_emit" /\ emitted' = Append(emitted, w_final))]_vars

\* the short question is emitted by a tick 0.6 s after the tick that opened its window
C22_Witness ==
    /\ wpc = "mf_emit"
    /\ w_final = WhatIsYourName
    /\ accepts = 1
    /\ last_speech_ago = ListenTimeout + 60

\* the sentence-end rule as it is described: the text ends in terminal
\* punctuation or in a closing phrase, and the silence is 0.75 s or more
SentenceEndRule(buf, silence) ==
    /\ \/ \E p \in SentenceEnds : EndsWith(Strip(buf), p)
       \/ \E k \in ClosingPhrases : EndsWith(Lower(Strip(buf)), k)
    /\ silence >= SentenceSilence

\* one of the other rules makes the utterance a candidate
OtherRule(buf, silence, duration) ==
    \/ WordCount(buf) >= LongWords /\ silence >= ShortSilence
    \/ silence >= FinalSilence
    \/ duration >= MaxUtterance
    \/ IsShortQuestion(WordCount(buf), buf) /\ silence >= ShortQuestionSilence

\* C23: an utterance that no other rule makes a candidate is one exactly when its
\* text ends in terminal punctuation or in a closing phrase and the silence is
\* 0.75 s or more: evaluated with no window open, the policy opens one in that
\* case and in no other.
C23_SentenceEndRule ==
    [][(/\ wpc = "mf_decide"
        /\ wpc' # wpc
        /\ pending_finalize_ago = Unset
        /\ ~OtherRule(buffer_text, last_speech_ago, mf.dur))
            => ((pending_finalize_ago' = 0) <=> SentenceEndRule(buffer_text, last_speech_ago))]_vars

\* C24: pendingFinalizeSince is set only while an utterance is buffered: whenever
\* neither thread is in the middle of an update and the buffer is empty, after a
\* finalization and after a stop() flush alike, pendingFinalizeSince is cleared.
C24_PendingOnlyWhileBuffered ==
    (Quiescent /\ buffer_text = << >>) => pending_finalize_ago = Unset

\* ------------------------------------------------------------------------
\* More claims about the merge
\* ------------------------------------------------------------------------
\* C27: merging loses no recognized text: for every non-empty stripped buffer and
\* every non-empty segment, the merged buffer holds the segment and the earlier
\* buffer as substrings, and merging the same segment again changes nothing.
C27_MergeKeepsText ==
    (wpc = "folded" /\ existing # << >> /\ Strip(text) # << >>)
        => /\ Contains(buffer_text, Strip(text))
           /\ Contains(buffer_text, existing)
           /\ BufferAfterSegment(buffer_text, text) = buffer_text

\* two texts merged on the one character they share at the seam
C27_Witness ==
    /\ wpc = "folded"
    /\ existing = TellMeAbout
    /\ text = TheWeather
    /\ buffer_text = TellMeAbout \o Slice(TheWeather, 2, Len(TheWeather))

\* ------------------------------------------------------------------------
\* More claims about the threads
\* ------------------------------------------------------------------------
\* C28: no utterance is emitted twice: when stop() interleaves with a confirmed
\* finalize, the two threads never both hold the same buffered text as the
\* final_text each is about to emit.
C28_EmittedByOne ==
    ~(w_final # << >> /\ u_final = w_final)

\* ------------------------------------------------------------------------
\* SpeechRecognitionThread.run: the choice of the microphone (lines 183-222)
\* ------------------------------------------------------------------------
VirtualTerms ==
    {<<"v", "i", "r", "t", "u", "a", "l">>,
     <<"v", "b", "-", "a", "u", "d", "i", "o">>,
     <<"c", "a", "b", "l", "e">>,
     <<"s", "t", "e", "r", "e", "o", " ", "m", "i", "x">>,
     <<"m", "i", "x">>,
     <<"l", "o", "o", "p", "b", "a", "c", "k">>,
     <<"w", "h", "a", "t", " ", "u", " ", "h", "e", "a", "r">>,
     <<"w", "h", "a", "t", "-", "y", "o", "u", "-", "h", "e", "a", "r">>,
     <<"w", "a", "v", "e", " ", "o", "u", "t">>,
     <<"o", "u", "t", "p", "u", "t">>,
     <<"s", "p", "e", "a", "k", "e", "r">>,
     <<"m", "o", "n", "i", "t", "o", "r", " ", "o", "f">>,
     <<"l", "i", "n", "e", " ", "(", "v", "o", "i", "c", "e", "m", "e", "e", "t", "e", "r">>,
     <<"n", "d", "i", "s">>,
     <<"a", "u", "x">>}

MicTerms == {<<"m", "i", "c">>,
            <<"m", "i", "c", "r", "o", "p", "h", "o", "n", "e">>,
            <<"a", "r", "r", "a", "y">>,
            <<"h", "e", "a", "d", "s", "e", "t">>}

ChipTerms ==
    {<<"r", "e", "a", "l", "t", "e", "k">>,
     <<"i", "n", "t", "e", "l">>,
     <<"h", "i", "g", "h", " ", "d", "e", "f", "i", "n", "i", "t", "i", "o", "n", " ", "a", "u", "d", "i", "o">>,
     <<"b", "u", "i", "l", "t", "-", "i", "n">>,
     <<"i", "n", "t", "e", "r", "n", "a", "l">>}

\* is_virtual (lines 186-193)
IsVirtual(name) == \E t \in VirtualTerms : Contains(Lower(name), t)

\* score_device (lines 195-206)
ScoreDevice(name) ==
    LET n == Lower(name)
        usb == <<"u", "s", "b">>
        mic == <<"m", "i", "c">>
        microphone_ == <<"m", "i", "c", "r", "o", "p", "h", "o", "n", "e">>
        headphones == <<"h", "e", "a", "d", "p", "h", "o", "n", "e", "s">>
    IN  (IF \E k \in MicTerms : Contains(n, k) THEN 100 ELSE 0)
        + (IF Contains(n, usb) THEN 50 ELSE 0)
        + (IF \E k \in ChipTerms : Contains(n, k) THEN 20 ELSE 0)
        - (IF Contains(n, headphones) /\ ~Contains(n, mic) /\ ~Contains(n, microphone_)
           THEN 60 ELSE 0)

\* candidates (lines 208-212), as the positions of mic_list that survive the filter
Candidates(list) == {i \in 1..Len(list) : ~IsVirtual(list[i])}

\* max(candidates, key=lambda x: x[2]) (line 215): the first of the best
Best(list) ==
    CHOOSE i \in Candidates(list) :
        \A j \in Candidates(list) :
            \/ ScoreDevice(list[j]) < ScoreDevice(list[i])
            \/ ScoreDevice(list[j]) = ScoreDevice(list[i]) /\ i <= j

\* the device names the machine may report
DeviceNames ==
    {<<"u", "s", "b", " ", "m", "i", "c">>,
     <<"h", "e", "a", "d", "s", "e", "t">>,
     <<"I", "n", "t", "e", "l">>,
     <<"h", "e", "a", "d", "p", "h", "o", "n", "e", "s">>,
     <<"s", "t", "e", "r", "e", "o", " ", "m", "i", "x">>,
     <<"a", "u", "x", " ", "m", "i", "c">>}

\* run() has reached the microphone selection on a machine with some devices
SelectInit ==
    /\ CoreIdle
    /\ credits = 1
    /\ mic_list \in UNION {[1..n -> DeviceNames] : n \in 0..MaxDevices}
    /\ microphone = NoMicrophone
    /\ DesktopIdle
    /\ SessionsIdle
    /\ AnsweringIdle

\* the rest of the model stands still while the microphone is chosen
SelectFrame ==
    UNCHANGED <<running, utterance, wpc, worker_locals, ui, emitted, accepts, heard, seg_note,
                stop_note, station, dispatch, mic_list, desktop, sessions, answering>>

\* lines 214-217: the best candidate is opened by its index
SelectBest ==
    /\ microphone = NoMicrophone
    /\ Candidates(mic_list) # {}
    /\ microphone' = Best(mic_list)
    /\ SelectFrame

\* lines 218-219: no candidate, sr.Microphone()
SelectDefault ==
    /\ microphone = NoMicrophone
    /\ Candidates(mic_list) = {}
    /\ microphone' = DefaultMicrophone
    /\ SelectFrame

\* lines 220-222: listing the devices or opening the chosen one raised
SelectFallback ==
    /\ microphone = NoMicrophone
    /\ microphone' = DefaultMicrophone
    /\ SelectFrame

SelectNext == SelectBest \/ SelectDefault \/ SelectFallback

SelectSpec == SelectInit /\ [][SelectNext]_vars

\* ------------------------------------------------------------------------
\* Claims about the choice of the microphone
\* ------------------------------------------------------------------------
\* C21: auto-selection never picks a device on the virtual-device deny-list: once
\* a microphone is chosen, if some device is not virtual the chosen one is a
\* non-virtual device of the highest score among them, and if none is, the
\* system default device is used.
C21_NeverVirtual ==
    microphone # NoMicrophone
        => IF Candidates(mic_list) # {}
           THEN /\ microphone \in Candidates(mic_list)
                /\ \A j \in Candidates(mic_list) :
                       ScoreDevice(mic_list[j]) <= ScoreDevice(mic_list[microphone])
           ELSE microphone = DefaultMicrophone

\* ------------------------------------------------------------------------
\* ai_desktop.py, SpeechRecognitionThread.run: the energy threshold
\* ------------------------------------------------------------------------
Max(a, b) == IF a >= b THEN a ELSE b

\* the platform's starting threshold (lines 219-242)
PlatformThresholds == {150, 120, 80, 100}

\* the thresholds the recognizer settles on when it measures the room, at
\* calibration and while listen() waits with dynamic_energy_threshold on: a
\* quiet room, a normal one, a loud one
DesktopLevels == {30, 70, 200}

\* run() has been entered and nothing else is going on
DesktopInit ==
    /\ CoreIdle
    /\ credits = 1
    /\ SelectionIdle
    /\ SessionsIdle
    /\ AnsweringIdle
    /\ energy_threshold = 0
    /\ original_threshold = 0
    /\ dpc = "settings"

\* the rest of the model stands still while ai_desktop.py's loop runs
DesktopFrame ==
    UNCHANGED <<running, utterance, wpc, worker_locals, ui, emitted, accepts, heard, seg_note,
                stop_note, station, dispatch, selection, sessions, answering>>

\* lines 219-244: the platform's settings
DesktopSettings ==
    /\ dpc = "settings"
    /\ energy_threshold' \in PlatformThresholds
    /\ dpc' = "calibrate"
    /\ UNCHANGED original_threshold
    /\ DesktopFrame

\* lines 246-262: adjust_for_ambient_noise measures the room, or raises
DesktopCalibrate ==
    /\ dpc = "calibrate"
    /\ energy_threshold' \in DesktopLevels \cup {energy_threshold}
    /\ dpc' = "listen"
    /\ UNCHANGED original_threshold
    /\ DesktopFrame

\* lines 266-294: listen() returns a clip; while it waited the recognizer
\* followed the room
DesktopListen ==
    /\ dpc = "listen"
    /\ energy_threshold' \in DesktopLevels \cup {energy_threshold}
    /\ dpc' = "recognize"
    /\ UNCHANGED original_threshold
    /\ DesktopFrame

\* lines 301-336: recognize_google and the fallbacks give a text, give none, or
\* raise UnknownValueError (handled at lines 357-359)
DesktopRecognize ==
    /\ dpc = "recognize"
    /\ dpc' \in {"accept", "nudge", "listen"}
    /\ UNCHANGED <<energy_threshold, original_threshold>>
    /\ DesktopFrame

\* lines 340-341: original_threshold = energy_threshold;
\* energy_threshold = max(50, original_threshold - 50)
DesktopNudge ==
    /\ dpc = "nudge"
    /\ original_threshold' = energy_threshold
    /\ energy_threshold' = Max(NudgeFloor, energy_threshold - NudgeStep)
    /\ dpc' = "retry"
    /\ DesktopFrame

\* lines 342-343: the retry returns and the threshold is put back
DesktopRetryReturns ==
    /\ dpc = "retry"
    /\ energy_threshold' = original_threshold
    /\ dpc' = "accept"
    /\ UNCHANGED original_threshold
    /\ DesktopFrame

\* lines 342, 344: the retry raises
DesktopRetryRaises ==
    /\ dpc = "retry"
    /\ dpc' = "retry_except"
    /\ UNCHANGED <<energy_threshold, original_threshold>>
    /\ DesktopFrame

\* line 345: except Exception: pass
DesktopRetryPass ==
    /\ dpc = "retry_except"
    /\ dpc' = "accept"
    /\ UNCHANGED <<energy_threshold, original_threshold>>
    /\ DesktopFrame

\* lines 347-352: the text, if any, is emitted and the loop goes round
DesktopAccept ==
    /\ dpc = "accept"
    /\ dpc' = "listen"
    /\ UNCHANGED <<energy_threshold, original_threshold>>
    /\ DesktopFrame

DesktopNext ==
    \/ DesktopSettings \/ DesktopCalibrate \/ DesktopListen \/ DesktopRecognize
    \/ DesktopNudge \/ DesktopRetryReturns \/ DesktopRetryRaises \/ DesktopRetryPass
    \/ DesktopAccept

DesktopSpec == DesktopInit /\ [][DesktopNext]_vars

\* ------------------------------------------------------------------------
\* Claims about the sensitivity nudge
\* ------------------------------------------------------------------------
\* C25: the nudge only ever lowers the energy threshold and never takes it below
\* the floor of 50, whatever the retries do, and a retry that returns puts the
\* threshold back to its value before the nudge.
C25_NudgeLowers ==
    /\ [][(dpc = "nudge" /\ dpc' # dpc)
            => /\ energy_threshold' <= energy_threshold
               /\ energy_threshold' >= NudgeFloor]_vars
    /\ [][(dpc = "retry" /\ dpc' = "accept") => energy_threshold' = original_threshold]_vars

\* ------------------------------------------------------------------------
\* MainView._toggle_listening and the threads it creates
\* ------------------------------------------------------------------------
\* the Start button has never been pressed
SessionsInit ==
    /\ CoreIdle
    /\ credits = 1
    /\ SelectionIdle
    /\ DesktopIdle
    /\ SessionsIdle
    /\ AnsweringIdle

\* the rest of the model stands still while threads are started and stopped
SessionsFrame ==
    UNCHANGED <<running, utterance, wpc, worker_locals, upc, u_final, emitted, accepts, heard,
                seg_note, stop_note, station, dispatch, selection, desktop, answering>>

\* the threads never created
Unborn == {t \in 1..MaxThreads : threads[t] = "unborn"}

\* lines 1072-1103: self.listening = True; a new thread is created and started
SessionStart ==
    /\ ~listening
    /\ Unborn # {}
    /\ LET t == CHOOSE u \in Unborn : \A v \in Unborn : u <= v
       IN  /\ threads' = [threads EXCEPT ![t] = "started"]
           /\ listener' = t
    /\ listening' = TRUE
    /\ UNCHANGED flags
    /\ SessionsFrame

\* lines 1060-1071: self.listening = False; listener.stop() clears the thread's
\* running flag, quit() returns at once, and the reference is dropped
SessionStop ==
    /\ listening
    /\ listening' = FALSE
    /\ flags' = IF listener # 0 THEN [flags EXCEPT ![listener] = FALSE] ELSE flags
    /\ listener' = 0
    /\ UNCHANGED threads
    /\ SessionsFrame

\* lines 166-233: run() sets self.running and prepares the recognizer
ThreadBegins(t) ==
    /\ threads[t] = "started"
    /\ flags' = [flags EXCEPT ![t] = TRUE]
    /\ threads' = [threads EXCEPT ![t] = "loop"]
    /\ UNCHANGED <<listening, listener>>
    /\ SessionsFrame

\* line 236: while self.running
ThreadLoopTest(t) ==
    /\ threads[t] = "loop"
    /\ threads' = [threads EXCEPT ![t] = IF flags[t] THEN "capturing" ELSE "exited"]
    /\ UNCHANGED <<listening, flags, listener>>
    /\ SessionsFrame

\* lines 249-257, 318-323: listen() returns a clip, or times out and the loop goes round
ThreadListens(t) ==
    /\ threads[t] = "capturing"
    /\ \E to \in {"check", "loop"} : threads' = [threads EXCEPT ![t] = to]
    /\ UNCHANGED <<listening, flags, listener>>
    /\ SessionsFrame

\* lines 259-260: if not self.running: break
ThreadCheck(t) ==
    /\ threads[t] = "check"
    /\ threads' = [threads EXCEPT ![t] = IF flags[t] THEN "transcribing" ELSE "exited"]
    /\ UNCHANGED <<listening, flags, listener>>
    /\ SessionsFrame

\* lines 262-316: the clip is transcribed, accepted and the policy evaluated
ThreadTranscribes(t) ==
    /\ threads[t] = "transcribing"
    /\ threads' = [threads EXCEPT ![t] = "loop"]
    /\ UNCHANGED <<listening, flags, listener>>
    /\ SessionsFrame

SessionsNext ==
    \/ SessionStart
    \/ SessionStop
    \/ \E t \in 1..MaxThreads :
          \/ ThreadBegins(t) \/ ThreadLoopTest(t) \/ ThreadListens(t)
          \/ ThreadCheck(t) \/ ThreadTranscribes(t)

SessionsSpec == SessionsInit /\ [][SessionsNext]_vars

\* ------------------------------------------------------------------------
\* Claims about the sessions
\* ------------------------------------------------------------------------
\* the thread's loop is capturing, or transcribing and emitting
Active(t) == threads[t] \in {"capturing", "check", "transcribing"}

\* C26: at most one capture loop runs at a time: whatever the sequence of
\* Stop and Start presses, no two threads are capturing or transcribing at once.
C26_OneLoop ==
    \A t, u \in 1..MaxThreads : (Active(t) /\ Active(u)) => t = u

\* ------------------------------------------------------------------------
\* MainView: questions, answers and credits
\* ------------------------------------------------------------------------
\* the credits the account holds when the main view opens
StartCredits == 1

\* the main view has just opened
AnswerInit ==
    /\ CoreIdle
    /\ credits = StartCredits
    /\ SelectionIdle
    /\ DesktopIdle
    /\ SessionsIdle
    /\ AnsweringIdle

\* the rest of the model stands still while questions are asked and answered
AnswerFrame ==
    UNCHANGED <<running, utterance, wpc, worker_locals, ui, emitted, accepts, heard, seg_note,
                stop_note, station, delivered, outstanding, selection, desktop, sessions>>

\* lines 1126-1139, 1258-1272: a question reaches _on_speech and _ask_ai; with
\* credits left, _process_ai_request is submitted to the executor
AskAi ==
    /\ asked < MaxQuestions
    /\ asked' = asked + 1
    /\ IF credits <= 0
       THEN UNCHANGED <<inflight, last_dispatched>>
       ELSE /\ inflight' = inflight \cup {asked + 1}
            /\ last_dispatched' = asked + 1
    /\ UNCHANGED <<credits, updates, answers, answers_since_last_credit, deductions, genuine,
                   use_credit_calls>>
    /\ AnswerFrame

\* lines 1274-1348, success branches: the answer is sent to the UI thread and a
\* deduction task is submitted
RequestAnswers(q) ==
    /\ q \in inflight
    /\ inflight' = inflight \ {q}
    /\ updates' = Append(updates, [kind |-> "answers", val |-> q])
    /\ deductions' = deductions + 1
    /\ genuine' = genuine + 1
    /\ UNCHANGED <<credits, asked, last_dispatched, answers, answers_since_last_credit,
                   use_credit_calls>>
    /\ AnswerFrame

\* lines 1296-1310, 1336-1341, 1350-1368: a blocked answer, a timeout or an
\* error; the message is sent as the answer and nothing is deducted
RequestFails(q) ==
    /\ q \in inflight
    /\ inflight' = inflight \ {q}
    /\ updates' = Append(updates, [kind |-> "answers", val |-> q])
    /\ UNCHANGED <<credits, asked, last_dispatched, answers, answers_since_last_credit,
                   deductions, genuine, use_credit_calls>>
    /\ AnswerFrame

\* lines 1399-1443: a deduction task reads answers_since_last_credit; below two
\* it sends the new count, at two it posts to /use_credit and sends the credits
\* and a count of 0
DeductRuns ==
    /\ deductions > 0
    /\ deductions' = deductions - 1
    /\ LET new_count == answers_since_last_credit + 1
       IN  IF new_count < 2
           THEN /\ updates' = Append(updates, [kind |-> "count", val |-> new_count])
                /\ UNCHANGED use_credit_calls
           ELSE /\ use_credit_calls' = use_credit_calls + 1
                /\ updates' = Append(updates,
                       [kind |-> "credits", val |-> Max(0, StartCredits - (use_credit_calls + 1))])
    /\ UNCHANGED <<credits, asked, last_dispatched, inflight, answers, answers_since_last_credit,
                   genuine>>
    /\ AnswerFrame

\* lines 1371-1397: the UI thread applies the oldest queued update
ApplyUpdate ==
    /\ updates # << >>
    /\ updates' = Tail(updates)
    /\ LET u == Head(updates)
       IN  /\ answers' = IF u.kind = "answers" THEN u.val ELSE answers
           /\ credits' = IF u.kind = "credits" THEN u.val ELSE credits
           /\ answers_since_last_credit' =
                  CASE u.kind = "count"   -> u.val
                    [] u.kind = "credits" -> 0
                    [] OTHER              -> answers_since_last_credit
    /\ UNCHANGED <<asked, last_dispatched, inflight, deductions, genuine, use_credit_calls>>
    /\ AnswerFrame

AnswerNext ==
    \/ AskAi
    \/ \E q \in 1..MaxQuestions : RequestAnswers(q) \/ RequestFails(q)
    \/ DeductRuns
    \/ ApplyUpdate

AnswerSpec == AnswerInit /\ [][AnswerNext]_vars

\* ------------------------------------------------------------------------
\* Claims about answers and credits
\* ------------------------------------------------------------------------
\* every request has completed and every update has been applied
Settled == inflight = {} /\ deductions = 0 /\ updates = << >>

\* C29: when the requests of several questions complete in any order, the answer
\* on display once all have completed is the answer to the question asked last.
C29_LatestAnswerShown ==
    (Settled /\ last_dispatched > 0) => answers = last_dispatched

\* C30: one credit is charged per two genuine answers: once N genuine answers
\* have been received and every deduction task and update has been handled,
\* N \div 2 requests went to /use_credit and answers_since_last_credit is N % 2.
C30_CreditPerTwoAnswers ==
    Settled => /\ use_credit_calls = genuine \div 2
               /\ answers_since_last_credit = genuine % 2

====
